---- MODULE Spec2Model ----
(***************************************************************************)
(* Snap-fit design calculator (snap_fit_app.py).                           *)
(*                                                                         *)
(* The Streamlit script is modelled as a state machine: one action per     *)
(* user interaction that reruns the script (choosing the snap type,        *)
(* pressing the form's submit button) and one for typing a value into a    *)
(* form widget, which does not rerun it.                                   *)
(*                                                                         *)
(* Numbers.  Python floats are modelled as exact rationals <<n, d>> in     *)
(* lowest terms with d > 0, and float('inf') as <<1, 0>>.  Rounding of     *)
(* IEEE doubles is not modelled: every statement proved here is a          *)
(* statement about the formulas in exact arithmetic.                       *)
(***************************************************************************)
EXTENDS Integers, Sequences, FiniteSets, TLC

(***************************************************************************)
(* Exact arithmetic                                                        *)
(***************************************************************************)
Abs(n) == IF n < 0 THEN -n ELSE n

RECURSIVE GCD(_, _)
GCD(a, b) == IF b = 0 THEN a ELSE GCD(b, a % b)

\* The rational n/d in lowest terms, d > 0.
Rat(n, d) ==
    LET s == IF d < 0 THEN -1 ELSE 1
        g == GCD(Abs(n), Abs(d))
    IN  <<(s * n) \div g, (s * d) \div g>>

Inf == <<1, 0>>
Zero == <<0, 1>>
One == <<1, 1>>
IsInf(x) == x[2] = 0
IsZero(x) == x[2] # 0 /\ x[1] = 0
IsNumber(x) == x[2] >= 0 /\ (x[2] = 0 => x = Inf)

RAdd(x, y) == Rat(x[1] * y[2] + y[1] * x[2], x[2] * y[2])
RSub(x, y) == Rat(x[1] * y[2] - y[1] * x[2], x[2] * y[2])
RMul(x, y) == Rat(x[1] * y[1], x[2] * y[2])
\* x / y for y non-zero; the callers test the divisor first, as Python
\* raises ZeroDivisionError on a zero divisor.
RDiv(x, y) == Rat(x[1] * y[2], x[2] * y[1])
RLt(x, y) == x[1] * y[2] < y[1] * x[2]
RInt(n) == <<n, 1>>

RECURSIVE RPow(_, _)
RPow(x, k) == IF k = 0 THEN One ELSE RMul(x, RPow(x, k - 1))

\* math.tan(math.radians(deg)) on the angles of the model, as the exact
\* tangent.
TanDeg(deg) ==
    CASE deg = RInt(0) -> RInt(0)
      [] deg = RInt(45) -> RInt(1)
      [] deg = RInt(135) -> RInt(-1)

(***************************************************************************)
(* calculate_cantilever_snap                                               *)
(*                                                                         *)
(* A call either returns (kind "return", value the returned object) or     *)
(* raises (kind "raise", exc the exception).  divisions counts the         *)
(* division operations executed before the call ended.                     *)
(***************************************************************************)
GeometryError == "Beam dimensions (L, t, b) cannot be zero."
None == "None"
NoDict == [x \in {} |-> Zero]

Return(dict, n) == [kind |-> "return", value |-> dict, exc |-> "", divisions |-> n]
Raise(e, n) == [kind |-> "raise", value |-> NoDict, exc |-> e, divisions |-> n]

\* The precondition test of the first statement.
InvalidGeometry_NoWidth(L, t, b) == IsZero(L) \/ IsZero(t)

InvalidGeometry(L, t, b) == IsZero(L) \/ IsZero(t) \/ IsZero(b)

\* 1. Max Strain (%)
strain_percent_Squared(y, t, L, q) ==
    RMul(RMul(RDiv(RMul(RMul(RInt(3), RMul(y, y)), t),
                   RMul(RInt(2), RPow(L, 2))), q), RInt(100))

strain_percent(y, t, L, q) ==
    LET strain == RMul(RDiv(RMul(RMul(RInt(3), y), t),
                            RMul(RInt(2), RPow(L, 2))), q)
    IN  RMul(strain, RInt(100))

\* 2. Deflection Force (P) in Newtons, for q non-zero.
deflection_force_NoUnitConversion(E_gpa, b, y, q, t, L) ==
    RDiv(RMul(RDiv(RMul(RMul(E_gpa, b), y), q), RPow(RDiv(t, L), 3)), RInt(4))

deflection_force(E_gpa, b, y, q, t, L) ==
    LET E_mpa == RMul(E_gpa, RInt(1000))
    IN  RDiv(RMul(RDiv(RMul(RMul(E_mpa, b), y), q), RPow(RDiv(t, L), 3)), RInt(4))

\* 3. Push-on Force (W)
push_on_den(mu, tan_alpha) == RSub(One, RMul(mu, tan_alpha))

push_on_force(P, mu, tan_alpha) ==
    IF ~IsZero(push_on_den(mu, tan_alpha))
    THEN RDiv(RMul(P, RAdd(mu, tan_alpha)), push_on_den(mu, tan_alpha))
    ELSE Inf

\* 4. Pull-off Force (W')
pull_off_den(mu, tan_alpha_prime) == RAdd(One, RMul(mu, tan_alpha_prime))

pull_off_force_PushDenominator(P, mu, tan_alpha_prime) ==
    IF ~IsZero(push_on_den(mu, tan_alpha_prime))
    THEN RDiv(RMul(P, RSub(tan_alpha_prime, mu)), push_on_den(mu, tan_alpha_prime))
    ELSE Inf

pull_off_force(P, mu, tan_alpha_prime) ==
    IF ~IsZero(pull_off_den(mu, tan_alpha_prime))
    THEN RDiv(RMul(P, RSub(tan_alpha_prime, mu)), pull_off_den(mu, tan_alpha_prime))
    ELSE Inf

calculate_cantilever_snap(E_gpa, t, L, b, y, mu, alpha_deg, alpha_prime_deg, q) ==
    IF InvalidGeometry(L, t, b)
    THEN Return("error" :> GeometryError, 0)
    ELSE IF IsZero(q)
    THEN \* the strain is computed, then (E_mpa * b * y) / q raises
         Raise("ZeroDivisionError", 1)
    ELSE
      LET P == deflection_force(E_gpa, b, y, q, t, L)
          tan_alpha == TanDeg(alpha_deg)
          tan_alpha_prime == TanDeg(alpha_prime_deg)
          ndiv == 4 + (IF IsZero(push_on_den(mu, tan_alpha)) THEN 0 ELSE 1)
                    + (IF IsZero(pull_off_den(mu, tan_alpha_prime)) THEN 0 ELSE 1)
      IN  Return("Max Strain" :> strain_percent(y, t, L, q)
                 @@ "Deflection Force" :> P
                 @@ "Push-on Force" :> push_on_force(P, mu, tan_alpha)
                 @@ "Pull-off Force" :> pull_off_force(P, mu, tan_alpha_prime)
                 @@ "error" :> None, ndiv)

\* calculate_cantilever_snap(**calc_inputs)
Calculate(ci) ==
    calculate_cantilever_snap(ci.E_gpa, ci.t, ci.L, ci.b, ci.y, ci.mu,
                              ci.alpha_deg, ci.alpha_prime_deg, ci.q)

(***************************************************************************)
(* The Excel workbook and load_sheet                                       *)
(*                                                                         *)
(* A loaded sheet (DataFrame read with header=None) is its number of       *)
(* columns and its rows; of a row the model keeps the cell of column 1     *)
(* (the label) and the cell of column 4 (the value).  A value cell holds   *)
(* a number or a text.  loaded = FALSE stands for None.                    *)
(***************************************************************************)
SHEET_MAP ==
    [x \in {"Cantilever Snap", "L Shaped Snap", "U Shaped Snap"} |->
        CASE x = "Cantilever Snap" -> "Cantilever Snap"
          [] x = "L Shaped Snap" -> "\"L\" Shaped"
          [] x = "U Shaped Snap" -> "\"U\" Shaped"]

NoSheet == [loaded |-> FALSE, ncols |-> 0, rows |-> <<>>]
Sheet(n, rs) == [loaded |-> TRUE, ncols |-> n, rows |-> rs]
Num(l, x) == [label |-> l, kind |-> "num", num |-> x]
Text(l) == [label |-> l, kind |-> "text", num |-> Zero]

\* The rows of a cantilever sheet holding the worked example of the
\* documentation (E = 2.5, t = 2, L = 20, b = 10, Y = 3, Q = 1).
ExampleRows ==
    << Num("Flexural Modulus", Rat(5, 2)),
       Num("Permissible Strain", Rat(5, 2)),
       Num("Coefficient of Friction", Rat(3, 10)),
       Num("Beam Thickness", RInt(2)),
       Num("Beam Length", RInt(20)),
       Num("Beam Width", RInt(10)),
       Num("Lead Angle", RInt(45)),
       Num("Return Angle", RInt(0)),
       Num("Deflection", RInt(3)),
       Num("Q Factor", RInt(1)) >>

WithoutLabel(rs, l) == SelectSeq(rs, LAMBDA r : r.label # l)
WithText(rs, l) == [i \in DOMAIN rs |-> IF rs[i].label = l THEN Text(l) ELSE rs[i]]

\* The workbooks the process may find on disk: for each sheet name, what
\* pd.read_excel yields (NoSheet when it raises).
Workbook(cantilever, others) ==
    [x \in {"Cantilever Snap", "\"L\" Shaped", "\"U\" Shaped"} |->
        IF x = "Cantilever Snap" THEN cantilever ELSE others]

Files ==
    { Workbook(Sheet(6, ExampleRows), Sheet(6, <<>>)),
      Workbook(Sheet(6, ExampleRows), NoSheet),
      Workbook(Sheet(6, WithoutLabel(ExampleRows, "Q Factor")), Sheet(6, <<>>)),
      Workbook(Sheet(5, WithText(ExampleRows, "Beam Length")), Sheet(6, <<>>)),
      Workbook(Sheet(4, ExampleRows), Sheet(6, <<>>)),
      Workbook(Sheet(1, <<>>), Sheet(6, <<>>)),
      Workbook(NoSheet, NoSheet) }

\* load_sheet: the sheet, or None after reporting the failure.
load_sheet(workbook, sheet_name) == workbook[sheet_name]

(***************************************************************************)
(* extract_input_value                                                     *)
(***************************************************************************)
FloatReturn(x) == [kind |-> "return", value |-> x, exc |-> ""]
FloatRaise(e) == [kind |-> "raise", value |-> Zero, exc |-> e]

extract_input_value(df, label) ==
    IF ~df.loaded
    THEN FloatReturn(Zero)            \* None[1]: TypeError, caught
    ELSE IF df.ncols < 2
    THEN FloatRaise("KeyError")       \* df[1]: KeyError, not caught
    ELSE
      LET found == SelectSeq(df.rows, LAMBDA r : r.label = label)
      IN  IF found = <<>> \/ df.ncols < 5
          THEN FloatReturn(Zero)      \* .iloc[0, 4]: IndexError, caught
          ELSE IF found[1].kind = "text"
          THEN FloatReturn(Zero)      \* float(...): ValueError, caught
          ELSE FloatReturn(found[1].num)

\* The fields of the input form, named after the arguments they are
\* passed as, and the sheet label each default is looked up under.
Fields ==
    {"E_gpa", "permissible_strain", "mu", "t", "L", "b", "alpha_deg",
     "alpha_prime_deg", "y", "q"}

LabelOf(f) ==
    CASE f = "E_gpa" -> "Flexural Modulus"
      [] f = "permissible_strain" -> "Permissible Strain"
      [] f = "mu" -> "Coefficient of Friction"
      [] f = "t" -> "Beam Thickness"
      [] f = "L" -> "Beam Length"
      [] f = "b" -> "Beam Width"
      [] f = "alpha_deg" -> "Lead Angle"
      [] f = "alpha_prime_deg" -> "Return Angle"
      [] f = "y" -> "Deflection"
      [] f = "q" -> "Q Factor"

\* inputs = {...}: the ten lookups; the first one that raises ends the run.
ExtractRaises(df) ==
    \E f \in Fields : extract_input_value(df, LabelOf(f)).kind = "raise"

ExtractInputs(df) ==
    [f \in Fields |-> extract_input_value(df, LabelOf(f)).value]

(***************************************************************************)
(* What the page shows after a run of the script                           *)
(***************************************************************************)
RECURSIVE Pow10(_)
Pow10(k) == IF k = 0 THEN 1 ELSE 10 * Pow10(k - 1)

\* f"{x:.kf}": x in units of 10^-k, rounded half to even; "inf" for
\* infinity.
FormatFixed(x, k) ==
    IF IsInf(x)
    THEN [text |-> "inf", scaled |-> 0, digits |-> k]
    ELSE LET n == x[1] * Pow10(k)
             d == x[2]
             fl == n \div d
             r == n - fl * d
             up == 2 * r > d \/ (2 * r = d /\ fl % 2 = 1)
         IN  [text |-> "fixed", scaled |-> IF up THEN fl + 1 ELSE fl, digits |-> k]

SAFE == "Design is SAFE"
FAIL == "Design WILL LIKELY FAIL"
NotImplementedL == "Calculation logic for L-Shaped snaps is not yet implemented."
NotImplementedU == "Calculation logic for U-Shaped snaps is not yet implemented."

NoMetric ==
    [shown |-> FALSE, value |-> FormatFixed(Zero, 3), delta |-> FormatFixed(Zero, 2),
     delta_color |-> ""]

Blank ==
    [load_error |-> FALSE, stopped |-> FALSE, exception |-> "", form |-> FALSE,
     error |-> "", metric |-> NoMetric, verdicts |-> {}, table |-> <<>>, info |-> ""]

\* is_safe = results["Max Strain"] < permissible_strain
is_safe_OrEqual(max_strain, permissible) == ~RLt(permissible, max_strain)

is_safe(max_strain, permissible) == RLt(max_strain, permissible)

\* delta=f"Limit: {permissible_strain:.2f} %"
metric_delta_Margin(max_strain, permissible) ==
    FormatFixed(RSub(permissible, max_strain), 2)

metric_delta(max_strain, permissible) == FormatFixed(permissible, 2)

\* The branch on results.get("error") and what each side displays.
ShowResults_TableAnyway(d, res, permissible) ==
    IF res["error"] # None /\ res["error"] # ""
    THEN [d EXCEPT !.error = res["error"],
                   !.table = << FormatFixed(Zero, 2), FormatFixed(Zero, 2),
                                FormatFixed(Zero, 2) >>]
    ELSE [d EXCEPT
            !.metric = [shown |-> TRUE,
                        value |-> FormatFixed(res["Max Strain"], 3),
                        delta |-> metric_delta(res["Max Strain"], permissible),
                        delta_color |-> IF is_safe(res["Max Strain"], permissible)
                                        THEN "inverse" ELSE "normal"],
            !.verdicts = IF is_safe(res["Max Strain"], permissible)
                         THEN {SAFE} ELSE {FAIL},
            !.table = << FormatFixed(res["Deflection Force"], 2),
                         FormatFixed(res["Push-on Force"], 2),
                         FormatFixed(res["Pull-off Force"], 2) >>]

ShowResults(d, res, permissible) ==
    IF res["error"] # None /\ res["error"] # ""
    THEN [d EXCEPT !.error = res["error"]]
    ELSE [d EXCEPT
            !.metric = [shown |-> TRUE,
                        value |-> FormatFixed(res["Max Strain"], 3),
                        delta |-> metric_delta(res["Max Strain"], permissible),
                        delta_color |-> IF is_safe(res["Max Strain"], permissible)
                                        THEN "inverse" ELSE "normal"],
            !.verdicts = IF is_safe(res["Max Strain"], permissible)
                         THEN {SAFE} ELSE {FAIL},
            !.table = << FormatFixed(res["Deflection Force"], 2),
                         FormatFixed(res["Push-on Force"], 2),
                         FormatFixed(res["Pull-off Force"], 2) >>]

(***************************************************************************)
(* One run of the script, top to bottom                                    *)
(*                                                                         *)
(* widgets are the values the form's number inputs hold from the previous  *)
(* run (NoDict when the previous run did not render them); submitted is    *)
(* whether the run was started by the submit button.                       *)
(***************************************************************************)
Unassigned == <<>>
NoResult == [kind |-> "none", value |-> NoDict, exc |-> "", divisions |-> 0]

Locals(i, u, c, p, r, d) ==
    [inputs |-> i, user_inputs |-> u, calc_inputs |-> c, permissible_strain |-> p,
     results |-> r, display |-> d]

RunScript(wb, snap, widgets, submitted) ==
    IF ~load_sheet(wb, SHEET_MAP["Cantilever Snap"]).loaded
    THEN \* st.stop()
         Locals(NoDict, NoDict, NoDict, Unassigned, NoResult,
                [Blank EXCEPT !.load_error = TRUE, !.stopped = TRUE])
    ELSE
      LET df == load_sheet(wb, SHEET_MAP[snap])
          d0 == [Blank EXCEPT !.load_error = ~df.loaded]
      IN
      IF snap = "Cantilever Snap" /\ ExtractRaises(df)
      THEN Locals(NoDict, NoDict, NoDict, Unassigned, NoResult,
                  [d0 EXCEPT !.exception = "KeyError"])
      ELSE
        LET inputs_ == IF snap = "Cantilever Snap" THEN ExtractInputs(df) ELSE NoDict
            user_inputs_ == IF snap = "Cantilever Snap" /\ widgets # NoDict
                            THEN widgets ELSE inputs_
            d1 == [d0 EXCEPT !.form = TRUE]
        IN
        IF ~submitted
        THEN Locals(inputs_, user_inputs_, NoDict, Unassigned, NoResult, d1)
        ELSE IF snap = "Cantilever Snap"
        THEN
          LET calc_inputs_ ==
                  [f \in Fields \ {"permissible_strain"} |-> user_inputs_[f]]
              results_ == Calculate(calc_inputs_)
          IN  IF results_.kind = "raise"
              THEN Locals(inputs_, user_inputs_, calc_inputs_, Unassigned, results_,
                          [d1 EXCEPT !.exception = results_.exc])
              ELSE Locals(inputs_, user_inputs_, calc_inputs_,
                          IF results_.value["error"] = None
                          THEN user_inputs_["permissible_strain"] ELSE Unassigned,
                          results_,
                          ShowResults(d1, results_.value,
                                      user_inputs_["permissible_strain"]))
        ELSE Locals(inputs_, user_inputs_, NoDict, Unassigned, NoResult,
                    [d1 EXCEPT !.info = IF snap = "L Shaped Snap"
                                        THEN NotImplementedL ELSE NotImplementedU])

(***************************************************************************)
(* State                                                                   *)
(***************************************************************************)
VARIABLES
    workbook,            \* the Excel file found on disk (cached by load_sheet)
    snap_type,           \* the sidebar's selection
    inputs,              \* the defaults read from the sheet
    user_inputs,         \* the values held by the form's number inputs
    calc_inputs,         \* the arguments of the last submitted calculation
    permissible_strain,  \* the limit the last submission was judged against
    results,             \* what calculate_cantilever_snap did in the last run
    display,             \* what the page shows
    edits                \* how many values the user has typed so far

vars ==
    <<workbook, snap_type, inputs, user_inputs, calc_inputs, permissible_strain,
      results, display, edits>>

\* How many values the user types in one session.
MaxEdits == 2

\* The values the user types into each field.
EditValues(f) ==
    CASE f = "E_gpa" -> {Zero, RInt(5)}
      [] f = "permissible_strain" -> {Zero, Rat(9, 4)}
      [] f = "mu" -> {Zero, RInt(1), RInt(-1)}
      [] f = "t" -> {Zero, RInt(1)}
      [] f = "L" -> {Zero, RInt(10)}
      [] f = "b" -> {Zero, RInt(5)}
      [] f = "alpha_deg" -> {RInt(0), RInt(135)}
      [] f = "alpha_prime_deg" -> {RInt(45), RInt(135)}
      [] f = "y" -> {Zero, RInt(6), RInt(-3)}
      [] f = "q" -> {Zero, RInt(2)}

Adopt(run) ==
    /\ inputs' = run.inputs
    /\ user_inputs' = run.user_inputs
    /\ calc_inputs' = run.calc_inputs
    /\ permissible_strain' = run.permissible_strain
    /\ results' = run.results
    /\ display' = run.display

\* The first run of the script: the selectbox shows its first option.
Init ==
    /\ workbook \in Files
    /\ snap_type = "Cantilever Snap"
    /\ edits = 0
    /\ LET run == RunScript(workbook, "Cantilever Snap", NoDict, FALSE)
       IN  /\ inputs = run.inputs
           /\ user_inputs = run.user_inputs
           /\ calc_inputs = run.calc_inputs
           /\ permissible_strain = run.permissible_strain
           /\ results = run.results
           /\ display = run.display

\* The user picks another snap type in the sidebar: the script reruns; the
\* widgets of a form that was not rendered for the previous type start from
\* their defaults.
SelectSnapType(s) ==
    /\ ~display.stopped
    /\ s # snap_type
    /\ snap_type' = s
    /\ Adopt(RunScript(workbook, s, NoDict, FALSE))
    /\ UNCHANGED <<workbook, edits>>

\* The user types a value into a number input of the form; nothing reruns
\* until the form is submitted.
EditField(f, v) ==
    /\ display.form
    /\ snap_type = "Cantilever Snap"
    /\ edits < MaxEdits
    /\ v # user_inputs[f]
    /\ user_inputs' = [user_inputs EXCEPT ![f] = v]
    /\ edits' = edits + 1
    /\ UNCHANGED <<workbook, snap_type, inputs, calc_inputs, permissible_strain,
                   results, display>>

\* The user presses "Calculate Results": the script reruns with
\* submitted = True and the values the widgets hold.
Submit ==
    /\ display.form
    /\ Adopt(RunScript(workbook, snap_type, user_inputs, TRUE))
    /\ UNCHANGED <<workbook, snap_type, edits>>

Next ==
    \/ \E s \in DOMAIN SHEET_MAP : SelectSnapType(s)
    \/ \E f \in Fields : \E v \in EditValues(f) : EditField(f, v)
    \/ Submit

Spec == Init /\ [][Next]_vars

(***************************************************************************)
(* Properties                                                              *)
(***************************************************************************)
\* A cantilever calculation was submitted in the run the state shows.
Submitted == calc_inputs # NoDict
ValidGeometry ==
    ~IsZero(calc_inputs.L) /\ ~IsZero(calc_inputs.t) /\ ~IsZero(calc_inputs.b)
\* The submitted calculation returned a result without error.
ErrorFree ==
    /\ Submitted
    /\ results.kind = "return"
    /\ results.value["error"] = None
NumericFields == {"Max Strain", "Deflection Force", "Push-on Force", "Pull-off Force"}

\* C1: whenever at least one of L, t, b is zero (whatever the other fields,
\* Q = 0 included) the call returns a result with a non-empty error and none
\* of the four numeric fields, and it has performed no division.
C1_InvalidGeometryIsAnError ==
    (Submitted /\ ~ValidGeometry) =>
        /\ results.kind = "return"
        /\ "error" \in DOMAIN results.value
        /\ results.value["error"] \notin {None, ""}
        /\ DOMAIN results.value \cap NumericFields = {}
        /\ results.divisions = 0

C1_Witness ==
    /\ Submitted
    /\ IsZero(calc_inputs.b) /\ ~IsZero(calc_inputs.L) /\ ~IsZero(calc_inputs.t)
    /\ IsZero(calc_inputs.q)
    /\ results.kind = "return"
    /\ results.value["error"] = GeometryError

\* C2: whenever L, t and b are all non-zero (the other fields arbitrary, zero
\* included) the call returns a result with error None and four numeric
\* fields, each finite or infinite; it never raises.
C2_ValidGeometryNeverRaises ==
    (Submitted /\ ValidGeometry) =>
        /\ results.kind = "return"
        /\ results.value["error"] = None
        /\ \A k \in NumericFields :
              k \in DOMAIN results.value /\ IsNumber(results.value[k])

\* C3: whenever L, t, b are non-zero, a push-on denominator 1 - mu*tan(alpha)
\* of exactly zero gives error None and a Push-on Force of positive infinity,
\* and any other denominator gives P*(mu + tan(alpha))/(1 - mu*tan(alpha)).
C3_PushOnForce ==
    (Submitted /\ ValidGeometry) =>
        LET mu == calc_inputs.mu
            ta == TanDeg(calc_inputs.alpha_deg)
            den == RSub(One, RMul(mu, ta))
        IN  /\ results.kind = "return"
            /\ results.value["error"] = None
            /\ IsZero(den) => results.value["Push-on Force"] = Inf
            /\ ~IsZero(den) =>
                 results.value["Push-on Force"] =
                    RDiv(RMul(results.value["Deflection Force"], RAdd(mu, ta)), den)

\* C3 restricted to Q non-zero, where the call returns: the push-on force is
\* positive infinity for a zero denominator and the quotient otherwise.
PushOnForceWhenQNonZero ==
    (Submitted /\ ValidGeometry /\ ~IsZero(calc_inputs.q)) =>
        LET mu == calc_inputs.mu
            ta == TanDeg(calc_inputs.alpha_deg)
            den == RSub(One, RMul(mu, ta))
        IN  /\ results.kind = "return"
            /\ results.value["error"] = None
            /\ IsZero(den) => results.value["Push-on Force"] = Inf
            /\ ~IsZero(den) =>
                 results.value["Push-on Force"] =
                    RDiv(RMul(results.value["Deflection Force"], RAdd(mu, ta)), den)

\* C4: on every error-free submission the verdict is SAFE exactly when Max
\* Strain is strictly below the permissible strain the user entered; equality
\* gives the FAIL verdict; exactly one of the two labels is shown.
C4_StrictSafetyVerdict ==
    ErrorFree =>
        LET strain == results.value["Max Strain"]
            below == strain[1] * permissible_strain[2]
                        < permissible_strain[1] * strain[2]
        IN  /\ Cardinality(display.verdicts) = 1
            /\ display.verdicts \subseteq {SAFE, FAIL}
            /\ (SAFE \in display.verdicts) <=> below
            /\ strain = permissible_strain => display.verdicts = {FAIL}

C4_Witness ==
    /\ ErrorFree
    /\ results.value["Max Strain"] = permissible_strain
    /\ display.verdicts = {FAIL}

C6_ErrorWithholdsNumbers ==
    /\ ( Submitted /\ results.kind = "return" /\ results.value["error"] # None ) =>
          /\ display.error = results.value["error"]
          /\ display.error # ""
          /\ ~display.metric.shown
          /\ display.verdicts = {}
          /\ display.table = <<>>
    /\ ( display.metric.shown \/ display.verdicts # {} \/ display.table # <<>> ) =>
          /\ ErrorFree
          /\ display.error = ""

C6_Witness ==
    /\ Submitted
    /\ results.kind = "return"
    /\ results.value["error"] = GeometryError
    /\ display.error = GeometryError
    /\ display.table = <<>>

\* C7: the default lookup returns a float for every sheet and label and never
\* raises: 0.0 when the sheet failed to load, lacks the label or value column,
\* does not hold the label or holds an unparsable cell, else the cell's value.
C7_LookupNeverRaises ==
    \A sn \in DOMAIN workbook : \A f \in Fields :
        LET df == load_sheet(workbook, sn)
            r == extract_input_value(df, LabelOf(f))
            found == SelectSeq(df.rows, LAMBDA row : row.label = LabelOf(f))
            usable == /\ df.loaded /\ df.ncols >= 5 /\ found # <<>>
                      /\ found[1].kind = "num"
        IN  /\ r.kind = "return"
            /\ usable => r.value = found[1].num
            /\ ~usable => r.value = Zero

\* The factors Y is scaled by.
ScaleFactors == {Zero, RInt(2), RInt(-1), Rat(1, 2), RInt(3)}

====
